---- MODULE Spec2Model ----
(***************************************************************************)
(* Model of src/543projec.py: the train/test splitter (make_train), the    *)
(* weighted ALS solver (implicit_weighted_ALS), the ranking evaluator      *)
(* (auc_score, calc_mean_auc) and the recommendation generator (rec_items).*)
(*                                                                         *)
(* Matrices are functions over 0-based row and column indices, Python      *)
(* lists are sequences.  pct_test is a pair <<numerator, denominator>>, a   *)
(* float result is a record holding a fraction in lowest terms, or nan.    *)
(***************************************************************************)
EXTENDS Integers, Sequences, FiniteSets, TLC

(***************************************************************************)
(* Bounds of the model.                                                    *)
(***************************************************************************)
NumUsers == 2
NumItems == 2
RngStates == 4
MaxIter == 2

Users == 0..(NumUsers - 1)
Items == 0..(NumItems - 1)
\* purchase quantities of the interaction matrix: absent, or a count above one
Quantities == {0, 2}
Matrices == [Users -> [Items -> Quantities]]
\* pct_test in (0,1): dyadic fractions, for which the float product
\* pct_test * len(nonzero_pairs) of line 93 is exact
Pcts == {<<1, 4>>, <<1, 2>>, <<3, 4>>}
None == "None"

VARIABLES
    pc,            \* which function of the script returned last
    R,             \* the interaction matrix as it was built (line 50)
    ratings,       \* the matrix object passed to make_train
    pct_test,      \* the mask fraction passed to make_train
    rng,           \* state of the process-wide generator of module random
    training_set,  \* make_train: returned training matrix
    test_set,      \* make_train: returned test matrix
    altered_users, \* make_train: returned list(set(user_inds))
    samples,       \* make_train: the drawn (user, item) pairs
    prev_split,    \* <<result of the preceding make_train call>>, or <<>>
    drawn,         \* TRUE when the generator was used since the last call
    mean_auc,      \* calc_mean_auc: <<its lists and returned pair>>, or <<>>
    als,           \* implicit_weighted_ALS: its local state
    rec            \* rec_items: its inputs and result

vars == <<pc, R, ratings, pct_test, rng, training_set, test_set,
          altered_users, samples, prev_split, drawn, mean_auc, als, rec>>

(***************************************************************************)
(* Helpers on sequences and integers.                                      *)
(***************************************************************************)
RECURSIVE Gcd(_, _)
Gcd(a, b) == IF b = 0 THEN a ELSE Gcd(b, a % b)

Min(a, b) == IF a < b THEN a ELSE b

Range(s) == {s[k] : k \in 1..Len(s)}

RECURSIVE SortedSeq(_)
SortedSeq(S) ==
    IF S = {} THEN <<>>
    ELSE LET m == CHOOSE x \in S : \A y \in S : x <= y
         IN <<m>> \o SortedSeq(S \ {m})

(***************************************************************************)
(* The generator of module random, reduced to a small state space: seed    *)
(* puts it in a state that depends on the seed only, every draw advances   *)
(* the state, and the value drawn is a function of the state.              *)
(***************************************************************************)
Seed(a) == a % RngStates

Advance(s) == (s + 1) % RngStates

\* the value the generator yields in state s
Output(s) == s * s + 3 * s + 1

\* random._randbelow(n): advances the generator, returns a value in 0..n-1
Randbelow(s, n) == <<Output(Advance(s)) % n, Advance(s)>>

\* random.sample(population, k), the pool branch:
\*   for i in range(k): j = randbelow(n-i); result[i] = pool[j];
\*                      pool[j] = pool[n-i-1]
RECURSIVE SampleLoop(_, _, _, _)
SampleLoop(s, pool, k, result) ==
    IF k = 0 THEN <<result, s>>
    ELSE LET n == Len(pool)
             d == Randbelow(s, n)
             j == d[1] + 1
             moved == [pool EXCEPT ![j] = pool[n]]
         IN SampleLoop(d[2], SubSeq(moved, 1, n - 1), k - 1,
                       Append(result, pool[j]))

Sample(s, population, k) == SampleLoop(s, population, k, <<>>)

(***************************************************************************)
(* make_train                                                              *)
(***************************************************************************)
\* ratings.copy()
Copy(m) == m

\* m[m != 0] = 1
Binarize(m) == [u \in Users |-> [i \in Items |-> IF m[u][i] # 0 THEN 1 ELSE 0]]

AllPairs == [k \in 1..(NumUsers * NumItems) |->
                <<(k - 1) \div NumItems, (k - 1) % NumItems>>]

Support(m) == {p \in Users \X Items : m[p[1]][p[2]] # 0}

\* list(zip(*m.nonzero())): the stored non-zero coordinates, row by row
NonzeroPairs(m) == SelectSeq(AllPairs, LAMBDA p : m[p[1]][p[2]] # 0)

\* a split that rounds the sample size down
NumSamplesFloor(p, n) == (p[1] * n) \div p[2]

\* int(np.ceil(pct_test * len(nonzero_pairs)))
NumSamples(p, n) == (p[1] * n + p[2] - 1) \div p[2]

\* a split that does not seed the generator
SeedMissing(s) == s

\* random.seed(0) of make_train, applied to the generator state s
SeedInMakeTrain(s) == Seed(0)

\* a split that takes the item index of each pair as its user index
UserIndsSwapped(smp) == [k \in 1..Len(smp) |-> smp[k][2]]

\* user_inds = [index[0] for index in samples]
UserInds(smp) == [k \in 1..Len(smp) |-> smp[k][1]]

\* item_inds = [index[1] for index in samples]
ItemInds(smp) == [k \in 1..Len(smp) |-> smp[k][2]]

\* m[user_inds, item_inds] = 0 ; m.eliminate_zeros()
ZeroAt(m, uinds, iinds) ==
    [u \in Users |-> [i \in Items |->
        IF \E k \in 1..Len(uinds) : uinds[k] = u /\ iinds[k] = i
        THEN 0 ELSE m[u][i]]]

\* a split that binarizes the matrix it has masked
TestSetOfMasked(r, training) == Binarize(training)

\* test_set = ratings.copy(); test_set[test_set != 0] = 1
TestSetOf(r, training) == Binarize(Copy(r))

\* list(set(user_inds))
AlteredList(uinds) == SortedSeq(Range(uinds))

\* training_set = ratings.copy(): the writes of line 97 go to the copy, the
\* caller's matrix r keeps its entries
RatingsAfter(r, training) == r

MakeTrainResult(r, p, s) ==
    LET training0 == Copy(r)
        nonzero_pairs == NonzeroPairs(training0)
        s0 == SeedInMakeTrain(s)
        num_samples == NumSamples(p, Len(nonzero_pairs))
        picked == Sample(s0, nonzero_pairs, num_samples)
        user_inds == UserInds(picked[1])
        item_inds == ItemInds(picked[1])
        training == ZeroAt(training0, user_inds, item_inds)
    IN [training |-> training, test |-> TestSetOf(r, training),
        altered |-> AlteredList(user_inds), samples |-> picked[1],
        rng |-> picked[2], ratings |-> RatingsAfter(r, training)]

(***************************************************************************)
(* auc_score and calc_mean_auc.  A float is a record: nan, or the fraction *)
(* num / den.                                                              *)
(***************************************************************************)
NaNValue == [nan |-> TRUE, num |-> 0, den |-> 1]

Frac(n, d) ==
    LET g == Gcd(n, d) IN [nan |-> FALSE, num |-> n \div g, den |-> d \div g]

RECURSIVE SortedDesc(_)
SortedDesc(S) ==
    IF S = {} THEN <<>>
    ELSE LET m == CHOOSE x \in S : \A y \in S : x >= y
         IN <<m>> \o SortedDesc(S \ {m})

\* metrics.roc_curve(test, predictions): one point (fps, tps) per distinct
\* score taken as threshold, in decreasing order, after the point (0, 0);
\* the rates are fps / n_neg and tps / n_pos
Fps(scores, labels, t) ==
    Cardinality({k \in 1..Len(scores) : labels[k] = 0 /\ scores[k] >= t})

Tps(scores, labels, t) ==
    Cardinality({k \in 1..Len(scores) : labels[k] # 0 /\ scores[k] >= t})

RocCurve(scores, labels) ==
    LET ts == SortedDesc(Range(scores))
    IN [fps |-> <<0>> \o [k \in 1..Len(ts) |-> Fps(scores, labels, ts[k])],
        tps |-> <<0>> \o [k \in 1..Len(ts) |-> Tps(scores, labels, ts[k])]]

\* metrics.auc(fpr, tpr): the trapezoidal rule, here times 2 * n_neg * n_pos
RECURSIVE Trapezoids(_, _, _)
Trapezoids(fps, tps, k) ==
    IF k < 2 THEN 0
    ELSE (fps[k] - fps[k - 1]) * (tps[k] + tps[k - 1])
         + Trapezoids(fps, tps, k - 1)

\* auc_score(predictions, test); with a single label class roc_curve yields
\* nan rates and metrics.auc yields nan
AucScore(scores, labels) ==
    LET n_pos == Cardinality({k \in 1..Len(labels) : labels[k] # 0})
        n_neg == Len(labels) - n_pos
        roc == RocCurve(scores, labels)
    IN IF n_pos = 0 \/ n_neg = 0 THEN NaNValue
       ELSE Frac(Trapezoids(roc.fps, roc.tps, Len(roc.fps)),
                 2 * n_pos * n_neg)

\* np.mean(list): nan for an empty list and for a list that holds a nan
RECURSIVE SumFrac(_)
SumFrac(l) ==
    IF l = <<>> THEN Frac(0, 1)
    ELSE LET t == SumFrac(Tail(l))
         IN Frac(Head(l).num * t.den + t.num * Head(l).den,
                 Head(l).den * t.den)

NpMean(l) ==
    IF l = <<>> \/ \E k \in 1..Len(l) : l[k].nan THEN NaNValue
    ELSE LET t == SumFrac(l) IN Frac(t.num, t.den * Len(l))

\* float('%.3f' % x): x to three decimals, ties to even
Round3(x) ==
    IF x.nan THEN NaNValue
    ELSE LET q == (1000 * x.num) \div x.den
             r == (1000 * x.num) % x.den
             up == 2 * r > x.den \/ (2 * r = x.den /\ q % 2 = 1)
         IN Frac(IF up THEN q + 1 ELSE q, 1000)

\* candidates that are the purchased columns of the training row
ZeroIndsNonzero(training_row) == SortedSeq({i \in Items : training_row[i] # 0})

\* zero_inds = np.where(training_row == 0)
ZeroInds(training_row) == SortedSeq({i \in Items : training_row[i] = 0})

\* pop_items = np.array(test_set.sum(axis=0)).reshape(-1)
RECURSIVE ColumnSum(_, _, _)
ColumnSum(m, i, n) == IF n = 0 THEN 0 ELSE m[n - 1][i] + ColumnSum(m, i, n - 1)

PopItems(test) == [i \in Items |-> ColumnSum(test, i, NumUsers)]

\* the factors given as predictions, with rank_size 1
UserFactors == [Users -> {-1, 1}]
ItemFactors == [Items -> {0, 1}]

\* one pass of the loop of calc_mean_auc, for user
PerUser(training, test, pop_items, user_vecs, item_vecs, user) ==
    LET zero_inds == ZeroInds(training[user])
        pred == [k \in 1..Len(zero_inds) |->
                    user_vecs[user] * item_vecs[zero_inds[k]]]
        actual == [k \in 1..Len(zero_inds) |-> test[user][zero_inds[k]]]
        pop == [k \in 1..Len(zero_inds) |-> pop_items[zero_inds[k]]]
    IN [actual |-> actual, auc |-> AucScore(pred, actual),
        pop_auc |-> AucScore(pop, actual)]

\* the means over a list of floats from which nothing is left out
MeanOfAll(l) == Round3(NpMean(l))

CalcMeanAucResult(training, altered, user_vecs, item_vecs, test) ==
    LET pop_items == PopItems(test)
        per == [k \in 1..Len(altered) |->
                   PerUser(training, test, pop_items, user_vecs, item_vecs,
                           altered[k])]
        store_auc == [k \in 1..Len(altered) |-> per[k].auc]
        popularity_auc == [k \in 1..Len(altered) |-> per[k].pop_auc]
    IN [actual |-> [k \in 1..Len(altered) |-> per[k].actual],
        store_auc |-> store_auc,
        popularity_auc |-> popularity_auc,
        returned |-> <<MeanOfAll(store_auc), MeanOfAll(popularity_auc)>>]

(***************************************************************************)
(* implicit_weighted_ALS.  The factors are floats, so a row of X or Y is   *)
(* kept as the expression that produced it: the outer iteration that wrote *)
(* it (0 for the random initial rows) and the operands of its solve.  A    *)
(* factor matrix that enters an operand is named by its Version: for each  *)
(* of its rows, the iteration that wrote the row.                          *)
(***************************************************************************)
Alpha == 15

NoValue == <<>>

\* rstate.normal(size=(n, rank_size)): the rows before the first iteration
InitialRows(S) == [r \in S |-> [iter |-> 0, val |-> NoValue]]

Version(name, M) == [of |-> name, rows |-> [r \in DOMAIN M |-> M[r].iter]]

\* conf = (alpha * training_set)
Conf(training) == [u \in Users |-> [i \in Items |-> Alpha * training[u][i]]]

\* pref = conf_samp.copy(); pref[pref != 0] = 1
Pref(conf_samp) == [k \in DOMAIN conf_samp |->
                       IF conf_samp[k] # 0 THEN 1 ELSE 0]

\* M.T.dot(M)
Gram(name, M) == [gram |-> Version(name, M)]

\* M.T.dot(sparse.diags(conf_samp, [0])).dot(M)
WeightedGram(name, M, conf_samp) ==
    [wgram |-> Version(name, M), conf |-> conf_samp]

\* M.T.dot(sparse.diags(conf_samp, [0]) + eye).dot(pref.T)
WeightedPref(name, M, conf_samp, pref) ==
    [wpref |-> Version(name, M), conf |-> conf_samp, pref |-> pref]

\* spsolve(gram + wgram + lambda_eye, wpref)
Spsolve(gram, wgram, wpref) == [A |-> <<gram, wgram, "lambda_eye">>, b |-> wpref]

\* conf[u, :].toarray()
ConfRow(conf, u) == conf[u]

\* conf[:, i].T.toarray()
ConfColumn(conf, i) == [u \in Users |-> conf[u][i]]

\* an item solve that takes its weighted terms from Y, the matrix it writes
ItemOperandWritten(X, Y) == <<"Y", Y>>

\* the factor matrix the item solve of lines 178-179 multiplies: X
ItemOperand(X, Y) == <<"X", X>>

\* the Gram term of the item solve of line 180: xTx as computed on line 160
ItemGram(xTx, X) == xTx

\* lines 163-170, for user u
UserSolve(a, u) ==
    LET conf_samp == ConfRow(a.conf, u)
        pref == Pref(conf_samp)
        yTCuIY == WeightedGram("Y", a.Y, conf_samp)
        yTCupu == WeightedPref("Y", a.Y, conf_samp, pref)
    IN [iter |-> a.iter_step + 1, val |-> Spsolve(a.yTy, yTCuIY, yTCupu)]

\* lines 174-180, for item i
ItemSolve(a, i) ==
    LET conf_samp == ConfColumn(a.conf, i)
        pref == Pref(conf_samp)
        m == ItemOperand(a.X, a.Y)
        xTCiIX == WeightedGram(m[1], m[2], conf_samp)
        xTCiPi == WeightedPref(m[1], m[2], conf_samp, pref)
    IN [iter |-> a.iter_step + 1,
        val |-> Spsolve(ItemGram(a.xTx, a.X), xTCiIX, xTCiPi)]

(***************************************************************************)
(* rec_items                                                               *)
(***************************************************************************)
\* pref_vec = row + 1; pref_vec[pref_vec > 1] = 0
PrefVec(row) == [i \in Items |-> IF row[i] + 1 > 1 THEN 0 ELSE row[i] + 1]

\* user_vecs[cust_ind, :].dot(item_vecs), with rank_size 1
RecVector(user_vecs, item_vecs, cust_ind) ==
    [i \in Items |-> user_vecs[cust_ind] * item_vecs[i]]

\* MinMaxScaler().fit_transform: (x - min) / (max - min), a zero range
\* counting as 1
MinMax(v) ==
    LET data == {v[i] : i \in DOMAIN v}
        lo == CHOOSE x \in data : \A y \in data : x <= y
        hi == CHOOSE x \in data : \A y \in data : x >= y
        span == IF hi = lo THEN 1 ELSE hi - lo
    IN [i \in DOMAIN v |-> Frac(v[i] - lo, span)]

Times(n, x) == Frac(n * x.num, x.den)

Leq(x, y) == x.num * y.den <= y.num * x.den

\* np.argsort(v): the orders of the indices in which v does not decrease;
\* the order of equal entries is left to the sort
Argsorts(v) ==
    {p \in [1..NumItems -> Items] :
        /\ \A a, b \in 1..NumItems : a # b => p[a] # p[b]
        /\ \A a \in 1..(NumItems - 1) : Leq(v[p[a]], v[p[a + 1]])}

\* order[::-1][:num_items]
ReversedHead(order, num_items) ==
    [k \in 1..Min(num_items, Len(order)) |-> order[Len(order) + 1 - k]]

\* the stock codes of the columns, item_list
ItemList == [i \in Items |-> 100 + i]

\* lines 330-337: recommend_vector = pref_vec * rec_vector_scaled
RecommendVector(cust_ind, mf_train, user_vecs, item_vecs) ==
    LET pref_vec == PrefVec(mf_train[cust_ind])
        rec_vector == RecVector(user_vecs, item_vecs, cust_ind)
        rec_vector_scaled == MinMax(rec_vector)
    IN [i \in Items |-> Times(pref_vec[i], rec_vector_scaled[i])]

\* lines 339-349, order being the result of np.argsort(recommend_vector)
RecItemsResult(cust_ind, recommend_vector, order, num_items) ==
    LET product_idx == ReversedHead(order, num_items)
    IN [pc |-> "done", cust_ind |-> cust_ind, num_items |-> num_items,
        recommend_vector |-> recommend_vector, product_idx |-> product_idx,
        codes |-> [k \in 1..Len(product_idx) |-> ItemList[product_idx[k]]]]

\* the item factors given to rec_items, with rank_size 1
ItemScores == [Items -> {0, 1, 2}]

(***************************************************************************)
(* The script as a state machine.  ratings and pct_test are the arguments  *)
(* of the run; the functions are called any number of times.               *)
(***************************************************************************)
NoAls == [pc |-> "idle"]
NoRec == [pc |-> "idle"]

InitCommon ==
    /\ pc = "start"
    /\ R \in Matrices
    /\ ratings = R
    /\ pct_test \in Pcts
    /\ training_set = None
    /\ test_set = None
    /\ altered_users = None
    /\ samples = None
    /\ prev_split = <<>>
    /\ drawn = FALSE
    /\ mean_auc = <<>>

SplitOf(tr, te, al, gap) ==
    [training |-> tr, test |-> te, altered |-> al, gap |-> gap]

\* product_train, product_test, product_users_altered = make_train(R, pct)
MakeTrain ==
    LET res == MakeTrainResult(ratings, pct_test, rng)
    IN /\ training_set' = res.training
       /\ test_set' = res.test
       /\ altered_users' = res.altered
       /\ samples' = res.samples
       /\ rng' = res.rng
       /\ prev_split' = IF pc = "start" THEN <<>>
                        ELSE <<SplitOf(training_set, test_set, altered_users,
                                       drawn)>>
       /\ ratings' = res.ratings
       /\ drawn' = FALSE
       /\ pc' = "split"
       /\ mean_auc' = <<>>
       /\ UNCHANGED <<R, pct_test, als, rec>>

\* any other use of module random in the process draws from the generator
OtherDraw ==
    /\ rng' = Advance(rng)
    /\ drawn' = TRUE
    /\ UNCHANGED <<pc, R, ratings, pct_test, training_set, test_set,
                   altered_users, samples, prev_split, mean_auc, als, rec>>

\* calc_mean_auc(product_train, product_users_altered, predictions,
\*               product_test)
CalcMeanAuc ==
    /\ pc = "split"
    /\ \E user_vecs \in UserFactors, item_vecs \in ItemFactors :
           mean_auc' = <<CalcMeanAucResult(training_set, altered_users,
                                           user_vecs, item_vecs, test_set)>>
    /\ pc' = "auc"
    /\ UNCHANGED <<R, ratings, pct_test, rng, training_set, test_set,
                   altered_users, samples, prev_split, drawn, als, rec>>

\* user_vecs, item_vecs = implicit_weighted_ALS(product_train, ...): entry,
\* lines 138-151
AlsCall ==
    /\ pc = "split"
    /\ als.pc = "idle"
    /\ \E iterations \in 1..MaxIter :
           als' = [pc |-> "iter", iterations |-> iterations, iter_step |-> 0,
                   conf |-> Conf(training_set),
                   X |-> InitialRows(Users), Y |-> InitialRows(Items),
                   yTy |-> NoValue, xTx |-> NoValue, u |-> 0, i |-> 0,
                   pass_start |-> NoValue]
    /\ UNCHANGED <<pc, R, ratings, pct_test, rng, training_set, test_set,
                   altered_users, samples, prev_split, drawn, mean_auc, rec>>

AlsUnchanged ==
    UNCHANGED <<pc, R, ratings, pct_test, rng, training_set, test_set,
                altered_users, samples, prev_split, drawn, mean_auc, rec>>

\* lines 157-160: the head of an outer iteration
IterBegin ==
    /\ als.pc = "iter"
    /\ als.iter_step < als.iterations
    /\ als' = [als EXCEPT !.pc = "users",
                          !.yTy = Gram("Y", als.Y),
                          !.xTx = Gram("X", als.X),
                          !.u = 0,
                          !.pass_start = Version("Y", als.Y)]
    /\ AlsUnchanged

\* lines 162-170: one turn of the user loop
UserStep ==
    /\ als.pc = "users"
    /\ LET X1 == [als.X EXCEPT ![als.u] = UserSolve(als, als.u)]
       IN als' = IF als.u + 1 < NumUsers
                 THEN [als EXCEPT !.X = X1, !.u = als.u + 1]
                 ELSE [als EXCEPT !.X = X1, !.u = als.u + 1,
                                  !.pc = "items", !.i = 0,
                                  !.pass_start = Version("X", X1)]
    /\ AlsUnchanged

\* lines 173-180: one turn of the item loop
ItemStep ==
    /\ als.pc = "items"
    /\ LET Y1 == [als.Y EXCEPT ![als.i] = ItemSolve(als, als.i)]
       IN als' = IF als.i + 1 < NumItems
                 THEN [als EXCEPT !.Y = Y1, !.i = als.i + 1]
                 ELSE [als EXCEPT !.Y = Y1, !.i = als.i + 1,
                                  !.pc = "iter",
                                  !.iter_step = als.iter_step + 1]
    /\ AlsUnchanged

\* line 183
AlsReturn ==
    /\ als.pc = "iter"
    /\ als.iter_step = als.iterations
    /\ als' = [als EXCEPT !.pc = "done"]
    /\ AlsUnchanged

\* rec_items(customer_id, product_train, user_vecs, item_vecs, ...)
RecItems ==
    /\ pc = "split"
    /\ \E cust_ind \in Users, user_vecs \in UserFactors,
          item_vecs \in ItemScores, num_items \in 1..(NumItems + 1) :
         LET recommend_vector == RecommendVector(cust_ind, training_set,
                                                 user_vecs, item_vecs)
         IN \E order \in Argsorts(recommend_vector) :
                rec' = RecItemsResult(cust_ind, recommend_vector, order,
                                      num_items)
    /\ UNCHANGED <<pc, R, ratings, pct_test, rng, training_set, test_set,
                   altered_users, samples, prev_split, drawn, mean_auc, als>>

SplitInit ==
    /\ InitCommon
    /\ rng \in 0..(RngStates - 1)
    /\ als = NoAls
    /\ rec = NoRec

SplitNext == MakeTrain \/ OtherDraw

SpecSplit == SplitInit /\ [][SplitNext]_vars

EvalInit ==
    /\ InitCommon
    /\ rng = Seed(0)
    /\ als = NoAls
    /\ rec = NoRec

EvalNext == MakeTrain \/ CalcMeanAuc

SpecEval == EvalInit /\ [][EvalNext]_vars

\* the script after line 101: make_train has returned
AfterMakeTrain ==
    /\ pc = "split"
    /\ R \in Matrices
    /\ pct_test \in Pcts
    /\ LET res == MakeTrainResult(R, pct_test, Seed(0))
       IN /\ ratings = res.ratings
          /\ training_set = res.training
          /\ test_set = res.test
          /\ altered_users = res.altered
          /\ samples = res.samples
          /\ rng = res.rng
    /\ prev_split = <<>>
    /\ drawn = FALSE
    /\ mean_auc = <<>>

AlsInit ==
    /\ AfterMakeTrain
    /\ als = NoAls
    /\ rec = NoRec

AlsNext == AlsCall \/ IterBegin \/ UserStep \/ ItemStep \/ AlsReturn

SpecALS == AlsInit /\ [][AlsNext]_vars

RecInit ==
    /\ AfterMakeTrain
    /\ als = NoAls
    /\ rec = NoRec

RecNext == RecItems

SpecRec == RecInit /\ [][RecNext]_vars

(***************************************************************************)
(* Claims about make_train.                                                *)
(***************************************************************************)
\* the positions where the training matrix differs from R
Masked == {p \in Users \X Items : training_set[p[1]][p[2]] # R[p[1]][p[2]]}

MaskedExactly ==
    /\ Cardinality(Masked) = NumSamples(pct_test, Cardinality(Support(R)))
    /\ \A p \in Masked : R[p[1]][p[2]] # 0 /\ training_set[p[1]][p[2]] = 0
    /\ \A p \in (Users \X Items) \ Masked :
           training_set[p[1]][p[2]] = R[p[1]][p[2]]

C4_AlteredUsers ==
    pc = "split" =>
        /\ Cardinality(Range(altered_users)) = Len(altered_users)
        /\ \A u \in Users :
               (u \in Range(altered_users)) <=> (training_set[u] # R[u])

C4_Witness ==
    /\ pc = "split"
    /\ Len(samples) = 2
    /\ Len(altered_users) = 1
    /\ \E u \in Users : training_set[u] = R[u] /\ Support(R) # Support(training_set)

C7_SplitDeterminism ==
    (pc = "split" /\ prev_split # <<>>) =>
        /\ training_set = prev_split[1].training
        /\ test_set = prev_split[1].test
        /\ Range(altered_users) = Range(prev_split[1].altered)

C7_Witness ==
    /\ pc = "split"
    /\ prev_split # <<>>
    /\ prev_split[1].gap
    /\ Len(samples) >= 2

(***************************************************************************)
(* Claims about calc_mean_auc.                                             *)
(***************************************************************************)
\* the labels of the candidate set of the k-th altered user
Candidates(k) == mean_auc[1].actual[k]

SingleClass(k) ==
    \/ \A j \in 1..Len(Candidates(k)) : Candidates(k)[j] = 0
    \/ \A j \in 1..Len(Candidates(k)) : Candidates(k)[j] # 0

TwoClassUsers == {k \in 1..Len(altered_users) : ~SingleClass(k)}

Keep(l, K) == SelectSeq([k \in 1..Len(l) |-> <<k, l[k]>>],
                        LAMBDA e : e[1] \in K)

Values(l) == [k \in 1..Len(l) |-> l[k][2]]

\* C6: an altered user whose candidate set has a single label class is left
\* out of both means: the returned means are the means over the other users.
C6_DegenerateExcluded ==
    pc = "auc" =>
        mean_auc[1].returned =
            <<Round3(NpMean(Values(Keep(mean_auc[1].store_auc, TwoClassUsers)))),
              Round3(NpMean(Values(Keep(mean_auc[1].popularity_auc,
                                        TwoClassUsers))))>>

\* C10: the candidate set of every altered user holds a column whose test
\* label is 1.
C10_CandidatesHavePositive ==
    pc = "auc" =>
        \A k \in 1..Len(altered_users) :
            \E j \in 1..Len(Candidates(k)) : Candidates(k)[j] = 1

C10_Witness ==
    /\ pc = "auc"
    /\ Len(altered_users) = 2
    /\ SingleClass(1)
    /\ ~SingleClass(2)

(***************************************************************************)
(* Claims about implicit_weighted_ALS.                                     *)
(***************************************************************************)
UserPassComplete == \A u \in Users : als.X[u].iter = als.iter_step + 1

\* C8: in every outer iteration the user pass is complete when the item pass
\* runs, and the xTx term of every item solve is the Gram matrix of the X
\* that this iteration's user pass produced.
C8_ItemPassUsesUpdatedGram ==
    als.pc = "items" =>
        /\ UserPassComplete
        /\ als.xTx = Gram("X", als.X)
        /\ \A i \in Items :
               als.Y[i].iter = als.iter_step + 1 =>
                   als.Y[i].val.A[1] = Gram("X", als.X)

\* the rows the running pass has written so far
WrittenUsers == IF als.pc = "users" THEN {u \in Users : u < als.u} ELSE {}

WrittenItems == IF als.pc = "items" THEN {i \in Items : i < als.i} ELSE {}

Recommended == Range(rec.product_idx)

Eligible(u) == {i \in Items : training_set[u][i] = 0}

\* C2: no item with a non-zero entry in the user's training row is in the
\* list rec_items returns.
C2_NoPurchasedItem ==
    rec.pc = "done" =>
        \A i \in Recommended : training_set[rec.cust_ind][i] = 0

\* C3: rec_items returns min(num_items, number of items with a zero training
\* entry) entries, in descending order of the masked scaled score.
C3_CountAndOrder ==
    rec.pc = "done" =>
        /\ Len(rec.product_idx) =
               Min(rec.num_items, Cardinality(Eligible(rec.cust_ind)))
        /\ \A k \in 1..(Len(rec.product_idx) - 1) :
               Leq(rec.recommend_vector[rec.product_idx[k + 1]],
                   rec.recommend_vector[rec.product_idx[k]])

====
